---------------------------- MODULE Spec2Model ----------------------------
(***************************************************************************)
(* Model of tc2-config (src/src/main.rs): the time-spec parser             *)
(* from_time_abs_or_rel_str, the recording-window resolver                 *)
(* DeviceConfig::next_recording_window / time_is_in_recording_window, and  *)
(* the location timestamp conversion timestamp_to_u64.                     *)
(*                                                                         *)
(* A string is a sequence of one-character strings.  Instants are whole    *)
(* seconds; second 0 is a UTC midnight.                                    *)
(***************************************************************************)
EXTENDS Integers, Sequences, FiniteSets, TLC

VARIABLES
    s,                      \* parser: the string being deserialised
    pos,                    \* parser: number of characters consumed by the scan loop
    tokens,                 \* parser: Vec<NumberString>
    idx,                    \* parser: number of tokens consumed by the reduce loop
    relative_time_seconds,  \* parser: Option<i32> local of the reduce loop
    absolute_time,          \* parser: Option<HourMin> local of the reduce loop
    pc,                     \* parser: "scan", "reduce", "done", "error", "panic"
    result,                 \* parser: the AbsRelTime returned with Ok, else None
    start_recording,        \* resolver: TimeWindow.start_recording
    stop_recording,         \* resolver: TimeWindow.stop_recording
    tz_offset,              \* resolver: what timezone_offset_seconds() returns on this host
    constant_recorder,      \* resolver: ThermalRecordingSettings.constant_recorder
    location,               \* resolver: DeviceConfig.location, an Option<LocationSettings>
    solar,                  \* resolver: sun_times at the location, per UTC day number
    now_utc,                \* resolver: the instant of the current poll
    window,                 \* resolver: what next_recording_window returned, else None
    active,                 \* resolver: what time_is_in_recording_window returned, else None
    host,                   \* resolver: "running", or "panicked" once a call has panicked
    date_time,              \* location: the toml Datetime of [location] timestamp
    timestamp               \* location: what timestamp_to_u64 returned with Ok, else None

parser_vars == <<s, pos, tokens, idx, relative_time_seconds, absolute_time, pc, result>>
config_vars == <<start_recording, stop_recording, tz_offset, constant_recorder, location, solar>>
window_vars == <<config_vars, now_utc, window, active, host>>
timestamp_vars == <<date_time, timestamp>>
vars == <<parser_vars, window_vars, timestamp_vars>>

\* Option<T>: None is the empty sequence, Some(x) the one-element sequence
None == <<>>
Some(x) == <<x>>
Unwrap(o) == o[1]

-----------------------------------------------------------------------------
(* Bounds of the model *)

\* Longest string enumerated over ShortAlphabet
MaxLen == 4

\* Seconds between two polls of the host
PollInterval == 30

\* Number of polls after which the host is no longer followed
MaxPolls == 2900

-----------------------------------------------------------------------------
(* Characters *)

Digits == {"0", "1", "2", "3", "4", "5", "6", "7", "8", "9"}
Signs == {"-", "+"}
UnitChars == {"s", "h", "m", "z"}
Colon == ":"

DigitVal(c) ==
    CASE c = "0" -> 0 [] c = "1" -> 1 [] c = "2" -> 2 [] c = "3" -> 3
      [] c = "4" -> 4 [] c = "5" -> 5 [] c = "6" -> 6 [] c = "7" -> 7
      [] c = "8" -> 8 [] c = "9" -> 9

I32Max == 2147483647
I32Min == (0 - I32Max) - 1

\* `num as u8`: the low eight bits
AsU8(n) == n % 256

\* i32 `+`: TRUE when the mathematical sum is outside i32
AddOverflows(x, y) ==
    \/ y > 0 /\ x > I32Max - y
    \/ y < 0 /\ x < I32Min - y

\* i32 `+` as a release build computes it (two's complement wrap)
WrapAdd(x, y) ==
    IF y > 0 /\ x > I32Max - y THEN (x + I32Min) + (y + I32Min)
    ELSE IF y < 0 /\ x < I32Min - y THEN (x - I32Min) + (y - I32Min)
    ELSE x + y

\* i32 `*` by a positive multiplier: TRUE when the product is outside i32
MulOverflows(num, mul) ==
    LET q == I32Max \div mul
        \* the magnitude of i32::MIN divided by mul, rounded down
        qneg == q + (IF I32Max % mul = mul - 1 THEN 1 ELSE 0)
    IN  mul > 1 /\ (num > q \/ num < 0 - qneg)

\* i32 `*` as a release build computes it, by 16-bit halves
WrapMul(num, mul) ==
    LET lo == num % 65536
        hi == ((num \div 65536) * mul) % 65536
        his == IF hi >= 32768 THEN hi - 65536 ELSE hi
    IN  WrapAdd(his * 65536, lo * mul)

-----------------------------------------------------------------------------
(* i32::from_str_radix(str, 10), accumulating downwards as the magnitude of *)
(* i32::MIN is not an i32                                                   *)

\* the negated value of a run of digits, or None when it is below i32::MIN
RECURSIVE NegDigitsValue(_, _)
NegDigitsValue(str, acc) ==
    IF str = <<>> THEN Some(acc)
    ELSE LET d == DigitVal(Head(str))
         IN  IF acc < I32Min \div 10 + 1 THEN None
             ELSE IF acc * 10 < I32Min + d THEN None
             ELSE NegDigitsValue(Tail(str), acc * 10 - d)

AllDigits(str) == \A i \in 1..Len(str) : str[i] \in Digits

from_str_radix(str) ==
    LET body == IF str # <<>> /\ Head(str) \in Signs THEN Tail(str) ELSE str
        neg == str # <<>> /\ Head(str) = "-"
        nval == IF AllDigits(body) THEN NegDigitsValue(body, 0) ELSE None
    IN  IF body = <<>> \/ nval = None THEN [ok |-> FALSE, val |-> 0]
        ELSE IF ~neg /\ Unwrap(nval) = I32Min THEN [ok |-> FALSE, val |-> 0]
        ELSE [ok |-> TRUE, val |-> IF neg THEN Unwrap(nval) ELSE 0 - Unwrap(nval)]

-----------------------------------------------------------------------------
(* The scan loop of from_time_abs_or_rel_str: one character *)

NumberString(n, o, r) == [num |-> n, unit |-> o, is_relative |-> r]

SetLast(toks, tok) == [toks EXCEPT ![Len(toks)] = tok]

ScanSignOrDigit(toks, c) ==
    IF toks # <<>>
    THEN SetLast(toks, [toks[Len(toks)] EXCEPT !.num = Append(@, c)])
    ELSE Append(toks, NumberString(<<c>>, None, TRUE))

ScanUnit(toks, c) ==
    Append(SetLast(toks, [toks[Len(toks)] EXCEPT !.unit = Some(c)]),
           NumberString(<<>>, None, TRUE))

ColonUnit(count, old) ==
    IF count = 1 THEN Some("h")
    ELSE IF count = 2 THEN Some("m")
    ELSE IF count = 3 THEN Some("s")
    ELSE old

ScanColon(toks) ==
    LET count == Len(toks)
        last == toks[count]
    IN  Append(SetLast(toks, [last EXCEPT !.unit = ColonUnit(count, @),
                                          !.is_relative = FALSE]),
               NumberString(<<>>, None, FALSE))

\* ScanFails with the catch-all arm reached only while no token exists
ScanFails_FirstOnly(toks, c) ==
    \/ c \in UnitChars /\ toks = <<>>
    \/ c = Colon /\ toks = <<>>
    \/ c \notin (Digits \cup Signs \cup UnitChars \cup {Colon}) /\ toks = <<>>

\* the characters on which the scan loop returns Err
ScanFails(toks, c) ==
    \/ c \in UnitChars /\ toks = <<>>
    \/ c = Colon /\ toks = <<>>
    \/ c \notin (Digits \cup Signs \cup UnitChars \cup {Colon})

ScanChar(toks, c) ==
    IF c \in Digits \cup Signs THEN ScanSignOrDigit(toks, c)
    ELSE IF c \in UnitChars THEN ScanUnit(toks, c)
    ELSE ScanColon(toks)

-----------------------------------------------------------------------------
(* The reduce loop of from_time_abs_or_rel_str: one token *)

HourMin(h, m) == [hour |-> h, min |-> m]

\* UnitMul with the minutes arm lost to the catch-all
UnitMul_NoMinutes(unit) ==
    CASE unit = "s" -> 1
      [] unit = "h" -> 60 * 60
      [] OTHER -> 1

\* the multiplier of a TimeUnit
UnitMul(unit) ==
    CASE unit = "s" -> 1
      [] unit = "m" -> 60
      [] unit = "h" -> 60 * 60
      [] OTHER -> 1

TokenMul(token) == IF token.unit # None THEN UnitMul(Unwrap(token.unit)) ELSE 60

\* Accumulate without the sign test
Accumulate_Plain(seconds, num) == WrapAdd(seconds, num)

Accumulate(seconds, num) ==
    IF seconds < 0 /\ num > 0 THEN WrapAdd(seconds, 0 - num)
    ELSE WrapAdd(seconds, num)

InitRelative(rel, token) ==
    IF token.is_relative /\ rel = None THEN Some(0) ELSE rel

InitAbsolute(abs, token) ==
    IF ~token.is_relative /\ abs = None THEN Some(HourMin(0, 0)) ELSE abs

\* SetHourMin with the two unit arms exchanged
SetHourMin_Swapped(hour_min, token, num) ==
    IF token.unit # None
    THEN CASE Unwrap(token.unit) = "m" -> [hour_min EXCEPT !.hour = AsU8(num)]
           [] Unwrap(token.unit) = "h" -> [hour_min EXCEPT !.min = AsU8(num)]
           [] OTHER -> hour_min
    ELSE [hour_min EXCEPT !.min = AsU8(num)]

SetHourMin(hour_min, token, num) ==
    IF token.unit # None
    THEN CASE Unwrap(token.unit) = "m" -> [hour_min EXCEPT !.min = AsU8(num)]
           [] Unwrap(token.unit) = "h" -> [hour_min EXCEPT !.hour = AsU8(num)]
           [] OTHER -> hour_min
    ELSE [hour_min EXCEPT !.min = AsU8(num)]

\* an i32 operation of this iteration overflows
TokenOverflows(rel, token) ==
    LET rel1 == InitRelative(rel, token)
        parsed == from_str_radix(token.num)
        mul == TokenMul(token)
    IN  IF rel1 = None \/ ~parsed.ok THEN FALSE
        ELSE IF MulOverflows(parsed.val, mul) THEN TRUE
        ELSE LET num == parsed.val * mul
                 seconds == Unwrap(rel1)
             IN  AddOverflows(seconds,
                              IF seconds < 0 /\ num > 0 THEN 0 - num ELSE num)

ReduceToken(rel, abs, token) ==
    LET rel1 == InitRelative(rel, token)
        abs1 == InitAbsolute(abs, token)
        parsed == from_str_radix(token.num)
    IN  IF rel1 # None
        THEN [rel |-> IF parsed.ok
                      THEN Some(Accumulate(Unwrap(rel1),
                                           WrapMul(parsed.val, TokenMul(token))))
                      ELSE rel1,
              abs |-> abs1]
        ELSE [rel |-> rel1,
              abs |-> IF abs1 # None /\ parsed.ok
                      THEN Some(SetHourMin(Unwrap(abs1), token, parsed.val))
                      ELSE abs1]

AbsRelTime(abs, rel) == [absolute_time |-> abs, relative_time_seconds |-> rel]

-----------------------------------------------------------------------------
(* Input strings of the parser *)

ShortAlphabet == {"-", "+", "0", "1", "3", "9", "h", "m", "s", "z", ":", "a"}

ShortStrings == UNION {[1..n -> ShortAlphabet] : n \in 0..MaxLen}

\* the strings of the tests and of the specification, and strings whose
\* magnitudes reach the ends of i32
Examples ==
    { <<"2","0",":","1","0">>, <<"0","8",":","0","0">>,
      <<"-","1","h","2","0","m">>, <<"1","0",":","3","1">>,
      <<"2","1",":","5","9">>, <<"3","h">>, <<"3","0","m">>,
      <<"-","1","h","4","5","m">>, <<"a","b","c">>, <<"1",":","3","0">>,
      <<"h",":","3","0">>, <<":","3","0">>, <<"-","1","a">>,
      <<"-","1","h">>, <<"2","h">>, <<"9",":","5","0">>,
      <<"2","2",":","1","0">>, <<"1","5",":","0","4">>,
      <<"1",":","3","0","m">>, <<"1","h",":","3","0">>,
      <<"2","5",":","0","0">>, <<"1","2",":","9","9">>,
      <<"1",":","-","3","0">>, <<"3","0","0",":","0","0">>,
      <<"-","h">>, <<"+",":","3","0">>, <<"1","-","2">>,
      <<"1","2",":","3","0",":","4","5">>, <<"0","1",":","0","2",":","0","3">>,
      <<"1",":","2",":","3",":","4",":","5">>,
      <<"1","h","2","m","3","s">>, <<"-","9","0","s","1","0">>,
      <<"2","3",":","5","9">>, <<"0","0",":","0","0">>,
      <<"2","1","4","7","4","8","3","6","4","7","s">>,
      <<"2","1","4","7","4","8","3","6","4","8","s">>,
      <<"-","2","1","4","7","4","8","3","6","4","8","s">>,
      <<"6","0","0","0","0","0","h">>, <<"-","6","0","0","0","0","0","h">>,
      <<"3","5","7","9","1","3","9","5">>,
      <<"5","9","6","5","2","3","h","1","5","m">>,
      <<"-","5","9","6","5","2","3","h","1","5","m">>,
      <<"5","9","6","5","2","3",":","3","0">> }

Inputs == ShortStrings \cup Examples

-----------------------------------------------------------------------------
(* from_time_abs_or_rel_str as a state machine *)

\* one iteration of `for char in s.chars()` that does not return
ScanStep ==
    /\ pc = "scan"
    /\ pos < Len(s)
    /\ ~ScanFails(tokens, s[pos + 1])
    /\ tokens' = ScanChar(tokens, s[pos + 1])
    /\ pos' = pos + 1
    /\ UNCHANGED <<s, idx, relative_time_seconds, absolute_time, pc, result>>
    /\ UNCHANGED window_vars
    /\ UNCHANGED timestamp_vars

\* an iteration of the scan loop that returns Err(Error::custom(..))
ScanError ==
    /\ pc = "scan"
    /\ pos < Len(s)
    /\ ScanFails(tokens, s[pos + 1])
    /\ pc' = "error"
    /\ UNCHANGED <<s, pos, tokens, idx, relative_time_seconds, absolute_time, result>>
    /\ UNCHANGED window_vars
    /\ UNCHANGED timestamp_vars

\* the scan loop is over: the two locals of the reduce loop are set to None
StartReduce ==
    /\ pc = "scan"
    /\ pos = Len(s)
    /\ relative_time_seconds' = None
    /\ absolute_time' = None
    /\ idx' = 0
    /\ pc' = "reduce"
    /\ UNCHANGED <<s, pos, tokens, result>>
    /\ UNCHANGED window_vars
    /\ UNCHANGED timestamp_vars

\* one iteration of `for token in &tokens`; where an i32 operation overflows
\* this is what a build without overflow checks does
ReduceStep ==
    /\ pc = "reduce"
    /\ idx < Len(tokens)
    /\ LET r == ReduceToken(relative_time_seconds, absolute_time, tokens[idx + 1])
       IN  /\ relative_time_seconds' = r.rel
           /\ absolute_time' = r.abs
    /\ idx' = idx + 1
    /\ UNCHANGED <<s, pos, tokens, pc, result>>
    /\ UNCHANGED window_vars
    /\ UNCHANGED timestamp_vars

\* an iteration of the reduce loop in which an i32 operation overflows, in a
\* build with overflow checks: the thread panics
ReducePanic ==
    /\ pc = "reduce"
    /\ idx < Len(tokens)
    /\ TokenOverflows(relative_time_seconds, tokens[idx + 1])
    /\ pc' = "panic"
    /\ UNCHANGED <<s, pos, tokens, idx, relative_time_seconds, absolute_time, result>>
    /\ UNCHANGED window_vars
    /\ UNCHANGED timestamp_vars

\* the end of the function: Err when neither local is set, else Ok(AbsRelTime)
Finish ==
    /\ pc = "reduce"
    /\ idx = Len(tokens)
    /\ IF absolute_time = None /\ relative_time_seconds = None
       THEN pc' = "error" /\ result' = None
       ELSE /\ pc' = "done"
            /\ result' = Some(AbsRelTime(absolute_time, relative_time_seconds))
    /\ UNCHANGED <<s, pos, tokens, idx, relative_time_seconds, absolute_time>>
    /\ UNCHANGED window_vars
    /\ UNCHANGED timestamp_vars

\* default_recording_start_time / default_recording_stop_time
default_recording_start_time == AbsRelTime(None, Some(0 - (60 * 30)))
default_recording_stop_time == AbsRelTime(None, Some(60 * 30))

ParserIdle ==
    /\ s = <<>>
    /\ pos = 0
    /\ tokens = <<>>
    /\ idx = 0
    /\ relative_time_seconds = None
    /\ absolute_time = None
    /\ pc = "idle"
    /\ result = None

ResolverIdle ==
    /\ start_recording = default_recording_start_time
    /\ stop_recording = default_recording_stop_time
    /\ tz_offset = 0
    /\ constant_recorder = FALSE
    /\ location = None
    /\ solar = <<>>
    /\ now_utc = 0
    /\ window = None
    /\ active = None
    /\ host = "running"

\* no [location] timestamp is being deserialised
TimestampIdle ==
    /\ date_time = None
    /\ timestamp = None

Init ==
    /\ s \in Inputs
    /\ pos = 0
    /\ tokens = <<>>
    /\ idx = 0
    /\ relative_time_seconds = None
    /\ absolute_time = None
    /\ pc = "scan"
    /\ result = None
    /\ ResolverIdle
    /\ TimestampIdle

Next ==
    \/ ScanStep
    \/ ScanError
    \/ StartReduce
    \/ ReduceStep
    \/ ReducePanic
    \/ Finish

Spec == Init /\ [][Next]_vars

-----------------------------------------------------------------------------
(* Reading a string as the specification describes it *)

Terminated == pc \in {"done", "error", "panic"}

AllowedChars == Signs \cup Digits \cup UnitChars \cup {Colon}

\* the value of a run of digits, by place value
RECURSIVE Pow10(_)
Pow10(n) == IF n = 0 THEN 1 ELSE 10 * Pow10(n - 1)

RECURSIVE PlaceValue(_, _)
PlaceValue(str, i) ==
    IF i > Len(str) THEN 0
    ELSE DigitVal(str[i]) * Pow10(Len(str) - i) + PlaceValue(str, i + 1)

\* the value of an optional sign followed by digits
SignedValue(str) ==
    IF Head(str) = "-" THEN 0 - PlaceValue(Tail(str), 1)
    ELSE IF Head(str) = "+" THEN PlaceValue(Tail(str), 1)
    ELSE PlaceValue(str, 1)

IsMagnitude(str) ==
    /\ str # <<>>
    /\ LET body == IF Head(str) \in Signs THEN Tail(str) ELSE str
       IN  body # <<>> /\ \A i \in 1..Len(body) : body[i] \in Digits

\* the groups of a string without colons: each run of sign and digit
\* characters with the unit letter that follows it, if any
RECURSIVE Groups(_, _)
Groups(str, run) ==
    IF str = <<>> THEN <<[run |-> run, unit |-> None]>>
    ELSE IF Head(str) \in UnitChars
         THEN <<[run |-> run, unit |-> Some(Head(str))]>> \o Groups(Tail(str), <<>>)
         ELSE Groups(Tail(str), Append(run, Head(str)))

\* seconds per unit, a magnitude without a unit being minutes
SecondsPer(unit) ==
    IF unit = None THEN 60
    ELSE IF Unwrap(unit) = "s" THEN 1
    ELSE IF Unwrap(unit) = "m" THEN 60
    ELSE IF Unwrap(unit) = "h" THEN 3600
    ELSE 1

\* the scaled values of the groups that hold a magnitude, in order
RECURSIVE ScaledValues(_)
ScaledValues(groups) ==
    IF groups = <<>> THEN <<>>
    ELSE LET g == Head(groups)
         IN  (IF IsMagnitude(g.run)
              THEN <<SignedValue(g.run) * SecondsPer(g.unit)>>
              ELSE <<>>) \o ScaledValues(Tail(groups))

\* the running sum: a positive value is subtracted once the sum is negative
RECURSIVE SignFold(_)
SignFold(vals) ==
    IF vals = <<>> THEN 0
    ELSE LET sum == SignFold(SubSeq(vals, 1, Len(vals) - 1))
             v == vals[Len(vals)]
         IN  IF sum < 0 /\ v > 0 THEN sum - v ELSE sum + v

\* a string of sign, digit and unit characters that starts a magnitude, with
\* runs short enough that no sum leaves i32
RelativeString(str) ==
    /\ str # <<>>
    /\ \A i \in 1..Len(str) : str[i] \in Signs \cup Digits \cup UnitChars
    /\ Head(str) \in Signs \cup Digits
    /\ \A i \in 1..Len(Groups(str, <<>>)) : Len(Groups(str, <<>>)[i].run) <= 5

\* the groups the reduce loop has consumed so far, as the scan loop made them
ConsumedGroups ==
    [i \in 1..idx |-> [run |-> tokens[i].num, unit |-> tokens[i].unit]]

Str_m1h20m == <<"-", "1", "h", "2", "0", "m">>
Str_m1h45m == <<"-", "1", "h", "4", "5", "m">>
Str_30m == <<"3", "0", "m">>

\* C1: in a relative time spec the reduce loop holds, after each group, the
\* running sum of the groups consumed so far, folded from 0 left to right
\* with a positive group subtracted when the sum is already negative; hence
\* "-1h20m" ends at -4800, "-1h45m" at -6300 and "30m" at 1800.
C1_SignPropagation ==
    /\ (pc \in {"reduce", "done"} /\ RelativeString(s) /\ idx > 0) =>
           relative_time_seconds = Some(SignFold(ScaledValues(ConsumedGroups)))
    /\ (Terminated /\ s = Str_m1h20m) => result = Some(AbsRelTime(None, Some(-4800)))
    /\ (Terminated /\ s = Str_m1h45m) => result = Some(AbsRelTime(None, Some(-6300)))
    /\ (Terminated /\ s = Str_30m) => result = Some(AbsRelTime(None, Some(1800)))

C1_Witness ==
    /\ pc = "reduce"
    /\ s = Str_m1h20m
    /\ idx = 2
    /\ relative_time_seconds = Some(-4800)

Str_m1h == <<"-", "1", "h">>
Str_2h == <<"2", "h">>
Str_3h == <<"3", "h">>

\* C2: a relative time spec parses to the sign-propagated sum of its
\* magnitudes, each scaled by its unit (s by 1, m by 60, h by 3600, no unit
\* by 60); "-1h" is -3600, "2h" is 7200 and "3h" is 10800.
C2_UnitScaling ==
    /\ (Terminated /\ RelativeString(s)) =>
           /\ pc = "done"
           /\ result = Some(AbsRelTime(None,
                                       Some(SignFold(ScaledValues(Groups(s, <<>>))))))
    /\ (Terminated /\ s = Str_m1h) => result = Some(AbsRelTime(None, Some(-3600)))
    /\ (Terminated /\ s = Str_2h) => result = Some(AbsRelTime(None, Some(7200)))
    /\ (Terminated /\ s = Str_3h) => result = Some(AbsRelTime(None, Some(10800)))

C2_Witness ==
    /\ pc = "done"
    /\ s = <<"1", "h", "2", "m", "3", "s">>
    /\ result = Some(AbsRelTime(None, Some(3723)))

\* the colon-separated groups of a string
RECURSIVE ColonGroups(_, _)
ColonGroups(str, run) ==
    IF str = <<>> THEN <<run>>
    ELSE IF Head(str) = Colon THEN <<run>> \o ColonGroups(Tail(str), <<>>)
    ELSE ColonGroups(Tail(str), Append(run, Head(str)))

\* one to four digits
IsDigitGroup(run) ==
    /\ Len(run) \in 1..4
    /\ \A i \in 1..Len(run) : run[i] \in Digits

\* a wall-clock time written as n colon-separated groups of digits, the hour
\* in 0..23 and every later group in 0..59
IsClockString(str, n) ==
    LET groups == ColonGroups(str, <<>>)
    IN  /\ Len(groups) = n
        /\ \A i \in 1..n : IsDigitGroup(groups[i])
        /\ PlaceValue(groups[1], 1) <= 23
        /\ \A i \in 2..n : PlaceValue(groups[i], 1) <= 59

ClockHour(str) == PlaceValue(ColonGroups(str, <<>>)[1], 1)
ClockMinute(str) == PlaceValue(ColonGroups(str, <<>>)[2], 1)

Str_2010 == <<"2", "0", ":", "1", "0">>
Str_0800 == <<"0", "8", ":", "0", "0">>

\* C3: a two-group colon string "H:M" of digits parses to the absolute time
\* with hour H and minute M, and no relative offset is populated; "20:10"
\* gives hour 20, minute 10 and "08:00" gives hour 8, minute 0.
C3_TwoGroupAbsolute ==
    /\ (Terminated /\ IsClockString(s, 2)) =>
           /\ pc = "done"
           /\ result = Some(AbsRelTime(Some(HourMin(ClockHour(s), ClockMinute(s))),
                                       None))
    /\ (Terminated /\ s = Str_2010) =>
           result = Some(AbsRelTime(Some(HourMin(20, 10)), None))
    /\ (Terminated /\ s = Str_0800) =>
           result = Some(AbsRelTime(Some(HourMin(8, 0)), None))

C3_Witness ==
    /\ pc = "done"
    /\ s = Str_2010
    /\ result = Some(AbsRelTime(Some(HourMin(20, 10)), None))

\* C4: a three-group colon string "H:M:S" parses to the absolute time with
\* hour H and minute M; the seconds group changes neither.
C4_SecondsIgnored ==
    (Terminated /\ IsClockString(s, 3)) =>
        /\ pc = "done"
        /\ Unwrap(result).absolute_time = Some(HourMin(ClockHour(s), ClockMinute(s)))

\* C5: every accepted string gives a time spec with exactly one of the
\* absolute time and the relative offset populated.
C5_ExactlyOneVariant ==
    pc = "done" =>
        (Unwrap(result).absolute_time = None) # (Unwrap(result).relative_time_seconds = None)

\* C6: every absolute time the parser returns has its hour in 0..23 and its
\* minute in 0..59.
C6_AbsoluteInRange ==
    (pc = "done" /\ Unwrap(result).absolute_time # None) =>
        /\ Unwrap(Unwrap(result).absolute_time).hour \in 0..23
        /\ Unwrap(Unwrap(result).absolute_time).min \in 0..59

HasForeignChar(str) == \E i \in 1..Len(str) : str[i] \notin AllowedChars

FirstForeignChar(str) ==
    CHOOSE i \in 1..Len(str) :
        /\ str[i] \notin AllowedChars
        /\ \A j \in 1..(i - 1) : str[j] \in AllowedChars

\* C7: a string with a character outside {-, +, 0-9, s, h, m, z, :} is never
\* accepted, wherever the character stands: the scan loop does not pass the
\* first such character, the reduce loop is never entered, and the only way
\* the parse ends is the returned error.
C7_ForeignCharRejected ==
    HasForeignChar(s) =>
        /\ pc \in {"scan", "error"}
        /\ pos < FirstForeignChar(s)
        /\ result = None
        /\ (pc = "scan" /\ pos = FirstForeignChar(s) - 1) => ENABLED ScanError

C7_Witness ==
    /\ pc = "error"
    /\ s = <<"-", "1", "a">>
    /\ pos = 2
    /\ result = None

\* a colon or a unit letter stands in the string with no digit before it
MarkBeforeDigit(str) ==
    \E i \in 1..Len(str) :
        /\ str[i] \in UnitChars \cup {Colon}
        /\ \A j \in 1..(i - 1) : str[j] \in Signs

\* C8: a colon or a unit letter read before any digit makes the parse fail,
\* whether it starts the string or only sign characters precede it.
C8_MarkBeforeDigitFails ==
    (Terminated /\ MarkBeforeDigit(s)) => (pc = "error" /\ result = None)

\* C9: a string from which no integer magnitude can be read is a parse
\* error, never a time spec with a defaulted zero.
C9_NoMagnitudeFails ==
    pc = "done" => \E i \in 1..Len(tokens) : IsMagnitude(tokens[i].num)

-----------------------------------------------------------------------------
(* AbsRelTime::time_offset and DeviceConfig::next_recording_window *)

SecondsPerDay == 86400

\* Rust's `%` on i32: the remainder has the sign of the dividend
RustRem(a, b) == IF a >= 0 THEN a % b ELSE 0 - ((0 - a) % b)

\* time_offset with the UTC offset added instead of subtracted
time_offset_plus_tz(t, tz) ==
    IF t.absolute_time # None
    THEN LET abs_time == Unwrap(t.absolute_time)
             seconds_past_midnight == (abs_time.hour * 60 * 60) + (abs_time.min * 60)
         IN  [is_absolute |-> TRUE,
              offset |-> RustRem(seconds_past_midnight + tz, SecondsPerDay)]
    ELSE [is_absolute |-> FALSE, offset |-> Unwrap(t.relative_time_seconds)]

\* time_offset: (is_absolute, offset); tz is timezone_offset_seconds()
time_offset(t, tz) ==
    IF t.absolute_time # None
    THEN LET abs_time == Unwrap(t.absolute_time)
             seconds_past_midnight == (abs_time.hour * 60 * 60) + (abs_time.min * 60)
         IN  [is_absolute |-> TRUE,
              offset |-> RustRem(seconds_past_midnight - tz, SecondsPerDay)]
    ELSE [is_absolute |-> FALSE, offset |-> Unwrap(t.relative_time_seconds)]

\* `if is_absolute && offset < 0 { offset = 86_400 + offset }`
NormaliseOffset(o) ==
    IF o.is_absolute /\ o.offset < 0 THEN SecondsPerDay + o.offset ELSE o.offset

\* the number of the UTC day of an instant
DayOf(now) == now \div SecondsPerDay

\* now_utc.date(), as the instant of its midnight
DateOf(now) == DayOf(now) * SecondsPerDay

\* NaiveDateTime::new(now_utc.date(), from_num_seconds_from_midnight(offset))
OnDateOf(now, offset) == DateOf(now) + offset

\* the configuration next_recording_window reads
Config(start, stop, tz, loc, sun) ==
    [start_recording |-> start, stop_recording |-> stop, tz_offset |-> tz,
     location |-> loc, solar |-> sun]

\* sun_times(date, lat, lng, altitude): an Option<(sunrise, sunset)>
sun_times(cfg, day) == cfg.solar[day]

\* the `.expect(..)` on the location, latitude and longitude
HasLatLng(cfg) ==
    /\ cfg.location # None
    /\ Unwrap(cfg.location).latitude # None
    /\ Unwrap(cfg.location).longitude # None

\* RelativeCandidate with today's sunrise shifted by the start offset
RelativeCandidate_SunriseByStart(cfg, now, start_offset, end_offset) ==
    LET today == DayOf(now)
        yesterday == DayOf(now - SecondsPerDay)
        tomorrow == DayOf(now + SecondsPerDay)
        two_days == DayOf(now + 2 * SecondsPerDay)
        Panic == [panic |-> TRUE, window_start |-> None, window_end |-> None]
    IN  IF ~HasLatLng(cfg) THEN Panic
        ELSE IF sun_times(cfg, yesterday) = None \/ sun_times(cfg, today) = None
                \/ sun_times(cfg, tomorrow) = None
        THEN Panic
        ELSE
        LET yesterday_sunset == Unwrap(sun_times(cfg, yesterday)).sunset + start_offset
            today_sunrise == Unwrap(sun_times(cfg, today)).sunrise + start_offset
            today_sunset == Unwrap(sun_times(cfg, today)).sunset + start_offset
            tomorrow_sunrise == Unwrap(sun_times(cfg, tomorrow)).sunrise + end_offset
            tomorrow_sunset == Unwrap(sun_times(cfg, tomorrow)).sunset + start_offset
        IN  IF now > today_sunset /\ now > tomorrow_sunrise
            THEN IF sun_times(cfg, two_days) = None THEN Panic
                 ELSE [panic |-> FALSE,
                       window_start |-> Some(tomorrow_sunset),
                       window_end |-> Some(Unwrap(sun_times(cfg, two_days)).sunrise
                                               + end_offset)]
            ELSE IF \/ (now > today_sunset /\ now < tomorrow_sunrise)
                    \/ (now < today_sunset /\ now > today_sunrise)
            THEN [panic |-> FALSE,
                  window_start |-> Some(today_sunset),
                  window_end |-> Some(tomorrow_sunrise)]
            ELSE IF now < tomorrow_sunset /\ now < today_sunrise
                    /\ now > yesterday_sunset
            THEN [panic |-> FALSE,
                  window_start |-> Some(yesterday_sunset),
                  window_end |-> Some(today_sunrise)]
            ELSE Panic

\* the candidate window of a configuration with a relative bound: which of
\* the `.expect`, `.unwrap` and `panic!` of the branch is hit, if any, and
\* the pair (window_start, window_end)
RelativeCandidate(cfg, now, start_offset, end_offset) ==
    LET today == DayOf(now)
        yesterday == DayOf(now - SecondsPerDay)
        tomorrow == DayOf(now + SecondsPerDay)
        two_days == DayOf(now + 2 * SecondsPerDay)
        Panic == [panic |-> TRUE, window_start |-> None, window_end |-> None]
    IN  IF ~HasLatLng(cfg) THEN Panic
        ELSE IF sun_times(cfg, yesterday) = None \/ sun_times(cfg, today) = None
                \/ sun_times(cfg, tomorrow) = None
        THEN Panic
        ELSE
        LET yesterday_sunset == Unwrap(sun_times(cfg, yesterday)).sunset + start_offset
            today_sunrise == Unwrap(sun_times(cfg, today)).sunrise + end_offset
            today_sunset == Unwrap(sun_times(cfg, today)).sunset + start_offset
            tomorrow_sunrise == Unwrap(sun_times(cfg, tomorrow)).sunrise + end_offset
            tomorrow_sunset == Unwrap(sun_times(cfg, tomorrow)).sunset + start_offset
        IN  IF now > today_sunset /\ now > tomorrow_sunrise
            THEN IF sun_times(cfg, two_days) = None THEN Panic
                 ELSE [panic |-> FALSE,
                       window_start |-> Some(tomorrow_sunset),
                       window_end |-> Some(Unwrap(sun_times(cfg, two_days)).sunrise
                                               + end_offset)]
            ELSE IF \/ (now > today_sunset /\ now < tomorrow_sunrise)
                    \/ (now < today_sunset /\ now > today_sunrise)
            THEN [panic |-> FALSE,
                  window_start |-> Some(today_sunset),
                  window_end |-> Some(tomorrow_sunrise)]
            ELSE IF now < tomorrow_sunset /\ now < today_sunrise
                    /\ now > yesterday_sunset
            THEN [panic |-> FALSE,
                  window_start |-> Some(yesterday_sunset),
                  window_end |-> Some(today_sunrise)]
            ELSE Panic

\* the day-boundary correction moving both bounds, absolute or not
DayBoundaryCorrection_MovesBoth(now, is_absolute_start, is_absolute_end, start_time, end_time) ==
    LET start_minus_one_day == start_time - SecondsPerDay
        end_plus_one_day == end_time + SecondsPerDay
        end_minus_one_day ==
            IF start_minus_one_day > end_time - SecondsPerDay
            THEN (end_time - SecondsPerDay) + SecondsPerDay
            ELSE end_time - SecondsPerDay
        start_plus_one_day ==
            IF start_time + SecondsPerDay > end_plus_one_day
            THEN start_time
            ELSE start_time + SecondsPerDay
        start1 == IF end_minus_one_day > now THEN start_minus_one_day ELSE start_time
        end1 == IF end_minus_one_day > now THEN end_minus_one_day ELSE end_time
        end2 == IF end1 < start1 THEN end_plus_one_day ELSE end1
        start3 == IF now > end2 THEN start_plus_one_day ELSE start1
        end3 == IF now > end2 THEN end_plus_one_day ELSE end2
    IN  [start |-> start3, end |-> end3]

\* the day-boundary correction without the final `if *now_utc > end_time` step
DayBoundaryCorrection_NoAdvance(now, is_absolute_start, is_absolute_end, start_time, end_time) ==
    LET start_minus_one_day == start_time - SecondsPerDay
        end_plus_one_day == end_time + SecondsPerDay
        end_minus_one_day ==
            IF start_minus_one_day > end_time - SecondsPerDay
            THEN (end_time - SecondsPerDay) + SecondsPerDay
            ELSE end_time - SecondsPerDay
        start1 == IF end_minus_one_day > now /\ is_absolute_start
                  THEN start_minus_one_day ELSE start_time
        end1 == IF end_minus_one_day > now /\ is_absolute_end
                THEN end_minus_one_day ELSE end_time
        end2 == IF end1 < start1 /\ is_absolute_end THEN end_plus_one_day ELSE end1
    IN  [start |-> start1, end |-> end2]

\* the day-boundary correction without the `if end_minus_one_day > *now_utc`
\* step
DayBoundaryCorrection_NoYesterday(now, is_absolute_start, is_absolute_end, start_time, end_time) ==
    LET end_plus_one_day == end_time + SecondsPerDay
        start_plus_one_day ==
            IF start_time + SecondsPerDay > end_plus_one_day
            THEN start_time
            ELSE start_time + SecondsPerDay
        end2 == IF end_time < start_time /\ is_absolute_end
                THEN end_plus_one_day ELSE end_time
        start3 == IF now > end2 /\ is_absolute_start THEN start_plus_one_day ELSE start_time
        end3 == IF now > end2 /\ is_absolute_end THEN end_plus_one_day ELSE end2
    IN  [start |-> start3, end |-> end3]

\* the day-boundary correction applied when a bound is absolute
DayBoundaryCorrection(now, is_absolute_start, is_absolute_end, start_time, end_time) ==
    LET start_minus_one_day == start_time - SecondsPerDay
        end_plus_one_day == end_time + SecondsPerDay
        end_minus_one_day ==
            IF start_minus_one_day > end_time - SecondsPerDay
            THEN (end_time - SecondsPerDay) + SecondsPerDay
            ELSE end_time - SecondsPerDay
        start_plus_one_day ==
            IF start_time + SecondsPerDay > end_plus_one_day
            THEN start_time
            ELSE start_time + SecondsPerDay
        \* if end_minus_one_day > *now_utc
        start1 == IF end_minus_one_day > now /\ is_absolute_start
                  THEN start_minus_one_day ELSE start_time
        end1 == IF end_minus_one_day > now /\ is_absolute_end
                THEN end_minus_one_day ELSE end_time
        \* if end_time < start_time && is_absolute_end
        end2 == IF end1 < start1 /\ is_absolute_end THEN end_plus_one_day ELSE end1
        \* if *now_utc > end_time
        start3 == IF now > end2 /\ is_absolute_start THEN start_plus_one_day ELSE start1
        end3 == IF now > end2 /\ is_absolute_end THEN end_plus_one_day ELSE end2
    IN  [start |-> start3, end |-> end3]

\* next_recording_window: whether the call panics, else the window returned
next_recording_window(cfg, now) ==
    LET s_off == time_offset(cfg.start_recording, cfg.tz_offset)
        e_off == time_offset(cfg.stop_recording, cfg.tz_offset)
        is_absolute_start == s_off.is_absolute
        is_absolute_end == e_off.is_absolute
        start_offset == NormaliseOffset(s_off)
        end_offset == NormaliseOffset(e_off)
        candidate ==
            IF ~is_absolute_start \/ ~is_absolute_end
            THEN RelativeCandidate(cfg, now, start_offset, end_offset)
            ELSE [panic |-> FALSE, window_start |-> None, window_end |-> None]
    IN  IF candidate.panic THEN [panic |-> TRUE, start |-> 0, end |-> 0]
        ELSE
        LET start_time == IF ~is_absolute_start THEN Unwrap(candidate.window_start)
                          ELSE OnDateOf(now, start_offset)
            end_time == IF ~is_absolute_end THEN Unwrap(candidate.window_end)
                        ELSE OnDateOf(now, end_offset)
            w == IF is_absolute_start \/ is_absolute_end
                 THEN DayBoundaryCorrection(now, is_absolute_start, is_absolute_end,
                                            start_time, end_time)
                 ELSE [start |-> start_time, end |-> end_time]
        IN  [panic |-> FALSE, start |-> w.start, end |-> w.end]

\* is_continuous_recorder
is_continuous_recorder(flag, start, stop) ==
    \/ flag
    \/ /\ start.absolute_time # None
       /\ stop.absolute_time # None
       /\ start = stop

\* time_is_in_recording_window without the early return for a continuous
\* recorder
time_is_in_recording_window_always_resolves(flag, cfg, now) ==
    LET w == next_recording_window(cfg, now)
    IN  [panic |-> w.panic,
         inside |-> ~w.panic /\ now >= w.start /\ now <= w.end]

\* time_is_in_recording_window: whether the call panics, else its answer
time_is_in_recording_window(flag, cfg, now) ==
    IF is_continuous_recorder(flag, cfg.start_recording, cfg.stop_recording)
    THEN [panic |-> FALSE, inside |-> TRUE]
    ELSE LET w == next_recording_window(cfg, now)
         IN  [panic |-> w.panic,
              inside |-> ~w.panic /\ now >= w.start /\ now <= w.end]

-----------------------------------------------------------------------------
(* The host polls a configuration with two absolute bounds *)

WindowTimes ==
    { HourMin(0, 0), HourMin(9, 10), HourMin(9, 50), HourMin(17, 30),
      HourMin(22, 10), HourMin(23, 59) }

AbsoluteBounds == {AbsRelTime(Some(hm), None) : hm \in WindowTimes}

\* UTC offsets of the host, in seconds: -05:00, +00:00, +05:45, +13:00
TzOffsets == {0 - 18000, 0, 20700, 46800}

\* the days whose solar events a poll may ask for
SolarDays == (0 - 2)..(((MaxPolls * PollInterval) \div SecondsPerDay) + 2)

\* a sky with sunrise at 06:00 UTC and sunset at 18:00 UTC every day
EquinoxSky ==
    [d \in SolarDays |->
        Some([sunrise |-> d * SecondsPerDay + 6 * 3600,
              sunset |-> d * SecondsPerDay + 18 * 3600])]

CurrentConfig == Config(start_recording, stop_recording, tz_offset, location, solar)

\* one poll: the clock has advanced and both questions are asked of the
\* config, neither call panicking
Poll ==
    /\ host = "running"
    /\ now_utc + PollInterval <= MaxPolls * PollInterval
    /\ now_utc' = now_utc + PollInterval
    /\ LET w == next_recording_window(CurrentConfig, now_utc')
           a == time_is_in_recording_window(constant_recorder, CurrentConfig, now_utc')
       IN  /\ ~w.panic /\ ~a.panic
           /\ window' = Some([start |-> w.start, end |-> w.end])
           /\ active' = Some(a.inside)
    /\ UNCHANGED <<config_vars, host>>
    /\ UNCHANGED parser_vars
    /\ UNCHANGED timestamp_vars

\* a poll in which one of the two calls panics: the process is gone
PollPanic ==
    /\ host = "running"
    /\ now_utc + PollInterval <= MaxPolls * PollInterval
    /\ now_utc' = now_utc + PollInterval
    /\ LET w == next_recording_window(CurrentConfig, now_utc')
           a == time_is_in_recording_window(constant_recorder, CurrentConfig, now_utc')
       IN  w.panic \/ a.panic
    /\ host' = "panicked"
    /\ UNCHANGED <<config_vars, window, active>>
    /\ UNCHANGED parser_vars
    /\ UNCHANGED timestamp_vars

InitWindow ==
    /\ ParserIdle
    /\ TimestampIdle
    /\ start_recording \in AbsoluteBounds
    /\ stop_recording \in AbsoluteBounds
    /\ tz_offset \in TzOffsets
    /\ constant_recorder = FALSE
    /\ location = None
    /\ solar = EquinoxSky
    /\ now_utc = 0 - PollInterval
    /\ window = None
    /\ active = None
    /\ host = "running"

NextWindow == Poll

SpecWindow == InitWindow /\ [][NextWindow]_vars

\* seconds past local midnight of a wall-clock time and of an instant
TimeOfDay(t) ==
    ((Unwrap(t.absolute_time).hour * 3600) + (Unwrap(t.absolute_time).min * 60))
        % SecondsPerDay

LocalTimeOfDay(now, tz) == (now + tz) % SecondsPerDay

\* the local time of day is in the daily interval from start (inclusive) to
\* stop (exclusive), across midnight when stop is the earlier
InDailyWindow(start, stop, tz, now) ==
    LET S == TimeOfDay(start)
        E == TimeOfDay(stop)
        L == LocalTimeOfDay(now, tz)
    IN  IF S < E THEN S <= L /\ L < E
        ELSE IF S > E THEN L >= S \/ L < E
        ELSE FALSE

\* seconds from now to the next occurrence of the stop time of day after now
UntilStop(stop, tz, now) ==
    LET d == (TimeOfDay(stop) - LocalTimeOfDay(now, tz)) % SecondsPerDay
    IN  IF d = 0 THEN SecondsPerDay ELSE d

Bound_0910 == AbsRelTime(Some(HourMin(9, 10)), None)
Bound_1730 == AbsRelTime(Some(HourMin(17, 30)), None)
Bound_2210 == AbsRelTime(Some(HourMin(22, 10)), None)
Bound_0950 == AbsRelTime(Some(HourMin(9, 50)), None)

\* the poll happened at this local wall-clock time
PolledAtLocal(hour, min) ==
    window # None /\ LocalTimeOfDay(now_utc, tz_offset) = hour * 3600 + min * 60

\* C10: two absolute bounds start # stop, any UTC offset: when the local time
\* of day of now is in the daily interval from start (inclusive) to stop
\* (exclusive), cyclic across midnight, the window is active and the returned
\* window has start <= now < end, end being the next occurrence of the stop
\* time of day after now (22:10-09:50: 591 minutes at 23:59, 589 at 00:01;
\* 09:10-17:30: start - now = 0 at 09:10, 1 minute to end at 17:29).
C10_InsideWindow ==
    /\ (window # None /\ InDailyWindow(start_recording, stop_recording,
                                        tz_offset, now_utc)) =>
           /\ active = Some(TRUE)
           /\ Unwrap(window).start <= now_utc
           /\ now_utc < Unwrap(window).end
           /\ Unwrap(window).end = now_utc + UntilStop(stop_recording, tz_offset, now_utc)
    /\ (start_recording = Bound_2210 /\ stop_recording = Bound_0950) =>
           /\ PolledAtLocal(23, 59) =>
                  (active = Some(TRUE) /\ Unwrap(window).end - now_utc = 591 * 60)
           /\ PolledAtLocal(0, 1) =>
                  (active = Some(TRUE) /\ Unwrap(window).end - now_utc = 589 * 60)
    /\ (start_recording = Bound_0910 /\ stop_recording = Bound_1730) =>
           /\ PolledAtLocal(9, 10) =>
                  (active = Some(TRUE) /\ Unwrap(window).start - now_utc = 0)
           /\ PolledAtLocal(17, 29) =>
                  (active = Some(TRUE) /\ Unwrap(window).end - now_utc = 60)

C10_Witness ==
    /\ start_recording = Bound_2210
    /\ stop_recording = Bound_0950
    /\ tz_offset = 46800
    /\ PolledAtLocal(0, 1)
    /\ active = Some(TRUE)
    /\ Unwrap(window).end - now_utc = 589 * 60

-----------------------------------------------------------------------------
(* Outside the daily window, and at its stop instant *)

\* the local time of day is strictly outside the daily interval [start, stop]
OutsideDailyWindow(start, stop, tz, now) ==
    LET S == TimeOfDay(start)
        E == TimeOfDay(stop)
        L == LocalTimeOfDay(now, tz)
    IN  IF S < E THEN L < S \/ L > E
        ELSE IF S > E THEN L > E /\ L < S
        ELSE FALSE

\* seconds from now to the first occurrence of the start time of day after now
UntilStart(start, tz, now) ==
    LET d == (TimeOfDay(start) - LocalTimeOfDay(now, tz)) % SecondsPerDay
    IN  IF d = 0 THEN SecondsPerDay ELSE d

\* C11: two absolute bounds start # stop, any UTC offset: when the local time
\* of day of now is strictly outside the daily interval [start, stop], cyclic
\* across midnight, the window is not active and the returned start is the
\* first occurrence of the start time of day after now, 0 < start - now < 24h
\* (09:10-17:30 at 09:09: 1 minute; 22:10-09:50 at 09:51: 739 minutes).
C11_OutsideWindow ==
    /\ (window # None /\ OutsideDailyWindow(start_recording, stop_recording,
                                             tz_offset, now_utc)) =>
           /\ active = Some(FALSE)
           /\ Unwrap(window).start = now_utc + UntilStart(start_recording, tz_offset, now_utc)
           /\ 0 < Unwrap(window).start - now_utc
           /\ Unwrap(window).start - now_utc < SecondsPerDay
    /\ (start_recording = Bound_0910 /\ stop_recording = Bound_1730
            /\ PolledAtLocal(9, 9)) =>
           (active = Some(FALSE) /\ Unwrap(window).start - now_utc = 60)
    /\ (start_recording = Bound_2210 /\ stop_recording = Bound_0950
            /\ PolledAtLocal(9, 51)) =>
           (active = Some(FALSE) /\ Unwrap(window).start - now_utc = 739 * 60)

C11_Witness ==
    /\ start_recording = Bound_2210
    /\ stop_recording = Bound_0950
    /\ tz_offset = 46800
    /\ PolledAtLocal(9, 51)
    /\ active = Some(FALSE)
    /\ Unwrap(window).start - now_utc = 739 * 60

\* now is exactly the stop instant of the daily window
AtStopInstant ==
    /\ window # None
    /\ TimeOfDay(start_recording) # TimeOfDay(stop_recording)
    /\ LocalTimeOfDay(now_utc, tz_offset) = TimeOfDay(stop_recording)

\* C12: two absolute bounds start # stop, every UTC offset: when now is
\* exactly the stop instant the window is not active and the returned window
\* is the following one, its start the next occurrence of the start time of
\* day (09:10-17:30 at 17:30: 940 minutes later).
C12_StopInstantNotActive ==
    AtStopInstant =>
        /\ active = Some(FALSE)
        /\ Unwrap(window).start = now_utc + UntilStart(start_recording, tz_offset, now_utc)
        /\ (start_recording = Bound_0910 /\ stop_recording = Bound_1730) =>
               Unwrap(window).start - now_utc = 940 * 60

-----------------------------------------------------------------------------
(* A device: the window strings of its config are parsed, and its host asks
   the config the two questions of the public interface *)

\* seconds between two questions of the host
DeviceInterval == 900

\* the scan loop over a whole string none of whose characters fails
RECURSIVE ScanAll(_, _, _)
ScanAll(toks, str, i) ==
    IF i > Len(str) THEN toks
    ELSE ScanAll(ScanChar(toks, str[i]), str, i + 1)

\* the reduce loop over a whole token list
RECURSIVE ReduceAll(_, _, _, _)
ReduceAll(rel, abs, toks, i) ==
    IF i > Len(toks) THEN AbsRelTime(abs, rel)
    ELSE LET r == ReduceToken(rel, abs, toks[i])
         IN  ReduceAll(r.rel, r.abs, toks, i + 1)

\* from_time_abs_or_rel_str on a string for which it returns Ok
from_time_abs_or_rel_str(str) == ReduceAll(None, None, ScanAll(<<>>, str, 1), 1)

Str_1504 == <<"1", "5", ":", "0", "4">>
Str_130 == <<"1", ":", "3", "0">>
Str_130m == <<"1", ":", "3", "0", "m">>
Str_0100 == <<"0", "1", ":", "0", "0">>
Str_2500 == <<"2", "5", ":", "0", "0">>
Str_2210 == <<"2", "2", ":", "1", "0">>
Str_950 == <<"9", ":", "5", "0">>

\* the values of start-recording and stop-recording in the config file
WindowStrings ==
    { Str_1504, Str_130, Str_130m, Str_0100, Str_2500, Str_2210, Str_950,
      Str_m1h, Str_2h }

\* [location] sections: complete, without a latitude, and none at all
TestLocation ==
    Some([latitude |-> Some(0 - 41), longitude |-> Some(175), altitude |-> Some(0)])

NoLatitude ==
    Some([latitude |-> None, longitude |-> Some(175), altitude |-> Some(0)])

\* a sky that has no sunrise or sunset from the second day on
PolarSky == [d \in SolarDays |-> IF d >= 2 THEN None ELSE EquinoxSky[d]]

\* a sky at longitude 175 E: the sunrise of a UTC date falls at 18:00 UTC of
\* the day before and its sunset at 07:00 UTC
NZSky ==
    [d \in SolarDays |->
        Some([sunrise |-> d * SecondsPerDay - 6 * 3600,
              sunset |-> d * SecondsPerDay + 7 * 3600])]

\* where the device is: its [location] section and the sky over it
Sites ==
    { [location |-> None, solar |-> EquinoxSky],
      [location |-> NoLatitude, solar |-> EquinoxSky],
      [location |-> TestLocation, solar |-> EquinoxSky],
      [location |-> TestLocation, solar |-> NZSky],
      [location |-> TestLocation, solar |-> PolarSky] }

\* the host asks time_is_in_recording_window and the call returns; window
\* is the window the call resolved, None when resolution was bypassed
AskInWindow ==
    /\ host = "running"
    /\ now_utc + DeviceInterval <= MaxPolls * PollInterval
    /\ now_utc' = now_utc + DeviceInterval
    /\ LET a == time_is_in_recording_window(constant_recorder, CurrentConfig, now_utc')
           w == next_recording_window(CurrentConfig, now_utc')
       IN  /\ ~a.panic
           /\ active' = Some(a.inside)
           /\ window' = IF is_continuous_recorder(constant_recorder, start_recording,
                                                  stop_recording)
                         THEN None
                         ELSE Some([start |-> w.start, end |-> w.end])
    /\ UNCHANGED <<config_vars, host>>
    /\ UNCHANGED parser_vars
    /\ UNCHANGED timestamp_vars

\* the host asks time_is_in_recording_window and the call panics
AskInWindowPanic ==
    /\ host = "running"
    /\ now_utc + DeviceInterval <= MaxPolls * PollInterval
    /\ now_utc' = now_utc + DeviceInterval
    /\ time_is_in_recording_window(constant_recorder, CurrentConfig, now_utc').panic
    /\ host' = "panicked"
    /\ active' = None
    /\ window' = None
    /\ UNCHANGED config_vars
    /\ UNCHANGED parser_vars
    /\ UNCHANGED timestamp_vars

\* the host asks next_recording_window and the call returns
AskNextWindow ==
    /\ host = "running"
    /\ now_utc + DeviceInterval <= MaxPolls * PollInterval
    /\ now_utc' = now_utc + DeviceInterval
    /\ LET w == next_recording_window(CurrentConfig, now_utc')
       IN  /\ ~w.panic
           /\ window' = Some([start |-> w.start, end |-> w.end])
    /\ active' = None
    /\ UNCHANGED <<config_vars, host>>
    /\ UNCHANGED parser_vars
    /\ UNCHANGED timestamp_vars

\* the host asks next_recording_window and the call panics
AskNextWindowPanic ==
    /\ host = "running"
    /\ now_utc + DeviceInterval <= MaxPolls * PollInterval
    /\ now_utc' = now_utc + DeviceInterval
    /\ next_recording_window(CurrentConfig, now_utc').panic
    /\ host' = "panicked"
    /\ active' = None
    /\ window' = None
    /\ UNCHANGED config_vars
    /\ UNCHANGED parser_vars
    /\ UNCHANGED timestamp_vars

InitDevice ==
    /\ ParserIdle
    /\ TimestampIdle
    /\ start_recording \in {from_time_abs_or_rel_str(w) : w \in WindowStrings}
    /\ stop_recording \in {from_time_abs_or_rel_str(w) : w \in WindowStrings}
    /\ tz_offset \in TzOffsets
    /\ constant_recorder \in BOOLEAN
    /\ \E site \in Sites : location = site.location /\ solar = site.solar
    /\ now_utc = 0 - DeviceInterval
    /\ window = None
    /\ active = None
    /\ host = "running"

NextDevice ==
    \/ AskInWindow
    \/ AskInWindowPanic
    \/ AskNextWindow
    \/ AskNextWindowPanic

SpecDevice == InitDevice /\ [][NextDevice]_vars

-----------------------------------------------------------------------------
(* Continuous recording *)

\* both bounds are absolute and their offsets, once normalised, are equal
SameSecondsOfDay(start, stop, tz) ==
    /\ time_offset(start, tz).is_absolute
    /\ time_offset(stop, tz).is_absolute
    /\ NormaliseOffset(time_offset(start, tz)) = NormaliseOffset(time_offset(stop, tz))

\* C13: whenever both bounds are absolute and resolve to the same seconds of
\* day, however they were written ("15:04"/"15:04", "1:30"/"1:30m",
\* "01:00"/"25:00"), is_continuous_recorder is true and
\* time_is_in_recording_window answers true for every now.
C13_DegenerateContinuous ==
    (SameSecondsOfDay(start_recording, stop_recording, tz_offset) /\ active # None) =>
        /\ is_continuous_recorder(constant_recorder, start_recording, stop_recording)
        /\ active = Some(TRUE)

\* a bound that is measured from sunrise or sunset
IsRelative(t) == t.absolute_time = None

\* the host is running and has another question to ask
CanAsk == host = "running" /\ now_utc + DeviceInterval <= MaxPolls * PollInterval

\* C14: with the constant-recorder flag set, time_is_in_recording_window
\* returns true for every now and every window configuration, and window
\* resolution is bypassed: the call does not panic, even with relative
\* bounds and no location.
C14_ConstantRecorderBypass ==
    constant_recorder =>
        /\ active # None => (active = Some(TRUE) /\ window = None)
        /\ CanAsk => (ENABLED AskInWindow /\ ~ENABLED AskInWindowPanic)

C14_Witness ==
    /\ constant_recorder
    /\ IsRelative(start_recording)
    /\ IsRelative(stop_recording)
    /\ location = None
    /\ now_utc > 0
    /\ active = Some(TRUE)
    /\ window = None

-----------------------------------------------------------------------------
(* The shape of the returned window *)

\* C15: every window next_recording_window returns has start <= end, for
\* every configuration (both bounds absolute, both relative, or mixed),
\* every UTC offset and every now, the solar events alternating strictly.
C15_StartBeforeEnd ==
    window # None => Unwrap(window).start <= Unwrap(window).end

\* C16: every window next_recording_window returns is the current or the
\* next one: its end is >= now, for every configuration, UTC offset and now
\* for which resolution succeeds.
C16_EndNotPast ==
    window # None => Unwrap(window).end >= now_utc

-----------------------------------------------------------------------------
(* Resolution that cannot succeed *)

\* the config has a bound measured from sunrise or sunset
HasRelativeBound == IsRelative(start_recording) \/ IsRelative(stop_recording)

\* C17: when a bound is relative and the config has no location, or no
\* latitude or longitude, resolution hands the caller an error value: the
\* call does not panic.
C17_LocationRequiredReturned ==
    (HasRelativeBound /\ ~HasLatLng(CurrentConfig)) => host # "panicked"

\* sun_times has no events for yesterday, today or tomorrow
SolarUndefined(cfg, now) ==
    \E d \in {DayOf(now - SecondsPerDay), DayOf(now), DayOf(now + SecondsPerDay)} :
        sun_times(cfg, d) = None

\* C18: when sun_times yields no sunrise or sunset for a day resolution
\* needs, resolution hands the caller an error value: the call does not
\* panic.
C18_SolarUndefinedSurfaced ==
    (HasRelativeBound /\ HasLatLng(CurrentConfig)
        /\ SolarUndefined(CurrentConfig, now_utc)) => host # "panicked"

-----------------------------------------------------------------------------
(* The UTC offset of the host *)

\* C19: resolution is a function of now, the parsed window, and the
\* location: the window returned does not depend on the timezone the host
\* is in when the call is made.
C19_AmbientTimezoneIgnored ==
    window # None =>
        \A tz \in TzOffsets :
            LET w == next_recording_window(
                         Config(start_recording, stop_recording, tz, location, solar),
                         now_utc)
            IN  ~w.panic /\ Unwrap(window) = [start |-> w.start, end |-> w.end]

\* the recording-window bytes of write_to_slice
write_to_slice(flag, cfg) ==
    LET start == time_offset(cfg.start_recording, cfg.tz_offset)
        stop == time_offset(cfg.stop_recording, cfg.tz_offset)
    IN  [start_is_abs |-> IF start.is_absolute THEN 1 ELSE 0,
         start_seconds_offset |-> start.offset,
         end_is_abs |-> IF stop.is_absolute THEN 1 ELSE 0,
         end_seconds_offset |-> stop.offset,
         is_continuous_recorder |->
             IF is_continuous_recorder(flag, cfg.start_recording, cfg.stop_recording)
             THEN 1 ELSE 0]

\* seconds past UTC midnight of a wall-clock time in a timezone
UtcSecondsOfDay(t, tz) == (TimeOfDay(t) - tz) % SecondsPerDay

\* C20: for an absolute bound the offset time_offset produces, and
\* write_to_slice serializes, is the UTC seconds past midnight normalised
\* into [0, 86400), for every wall-clock time and every UTC offset (09:10 at
\* UTC+13 is 72600).
C20_OffsetNormalised ==
    LET slice == write_to_slice(constant_recorder, CurrentConfig)
    IN  /\ time_offset(start_recording, tz_offset).offset
              = UtcSecondsOfDay(start_recording, tz_offset)
        /\ time_offset(stop_recording, tz_offset).offset
              = UtcSecondsOfDay(stop_recording, tz_offset)
        /\ slice.start_seconds_offset \in 0..(SecondsPerDay - 1)
        /\ slice.end_seconds_offset \in 0..(SecondsPerDay - 1)

-----------------------------------------------------------------------------
(* The candidate window of relative bounds *)

\* sunset of a UTC day shifted by the start offset, sunrise by the stop offset
SunsetAdj(sky, day, start_offset) == Unwrap(sky[day]).sunset + start_offset
SunriseAdj(sky, day, end_offset) == Unwrap(sky[day]).sunrise + end_offset

\* the candidate of the three rules, taken in order, None when none matches
Step4Candidate(sky, now, start_offset, end_offset) ==
    LET today == now \div SecondsPerDay
        yesterday_sunset_adj == SunsetAdj(sky, today - 1, start_offset)
        today_sunrise_adj == SunriseAdj(sky, today, end_offset)
        today_sunset_adj == SunsetAdj(sky, today, start_offset)
        tomorrow_sunrise_adj == SunriseAdj(sky, today + 1, end_offset)
        tomorrow_sunset_adj == SunsetAdj(sky, today + 1, start_offset)
    IN  IF now > today_sunset_adj /\ now > tomorrow_sunrise_adj
        THEN Some([start |-> tomorrow_sunset_adj,
                   end |-> SunriseAdj(sky, today + 2, end_offset)])
        ELSE IF \/ (today_sunset_adj < now /\ now < tomorrow_sunrise_adj)
                \/ (today_sunrise_adj < now /\ now < today_sunset_adj)
        THEN Some([start |-> today_sunset_adj, end |-> tomorrow_sunrise_adj])
        ELSE IF now < tomorrow_sunset_adj /\ now < today_sunrise_adj
                /\ now > yesterday_sunset_adj
        THEN Some([start |-> yesterday_sunset_adj, end |-> today_sunrise_adj])
        ELSE None

BothRelative == IsRelative(start_recording) /\ IsRelative(stop_recording)

\* C21: with both bounds relative the window returned is the candidate of the
\* three rules taken in order with strict comparisons, each sunset shifted
\* by the start offset and each sunrise by the stop offset, today being the
\* UTC date of now.
C21_RelativeBranchOrder ==
    (BothRelative /\ window # None) =>
        window = Step4Candidate(solar, now_utc,
                                Unwrap(start_recording.relative_time_seconds),
                                Unwrap(stop_recording.relative_time_seconds))

\* the first rule has applied: the window is tomorrow's
C21_Witness ==
    /\ BothRelative
    /\ solar = NZSky
    /\ start_recording = from_time_abs_or_rel_str(Str_m1h)
    /\ stop_recording = from_time_abs_or_rel_str(Str_2h)
    /\ now_utc = 23 * 3600
    /\ window = Some([start |-> SecondsPerDay + 6 * 3600,
                      end |-> SecondsPerDay + 20 * 3600])

\* the offsets next_recording_window shifts the solar events by
StartOffset == NormaliseOffset(time_offset(start_recording, tz_offset))
EndOffset == NormaliseOffset(time_offset(stop_recording, tz_offset))

\* the solar events of the four days around now exist, the five adjusted
\* anchors are strictly ordered, and now is strictly between the outer two
OrderedAnchorsAround(sky, now, start_offset, end_offset) ==
    LET today == now \div SecondsPerDay
    IN  /\ \A d \in (today - 1)..(today + 2) : sky[d] # None
        /\ SunsetAdj(sky, today - 1, start_offset) < SunriseAdj(sky, today, end_offset)
        /\ SunriseAdj(sky, today, end_offset) < SunsetAdj(sky, today, start_offset)
        /\ SunsetAdj(sky, today, start_offset) < SunriseAdj(sky, today + 1, end_offset)
        /\ SunriseAdj(sky, today + 1, end_offset) < SunsetAdj(sky, today + 1, start_offset)
        /\ SunsetAdj(sky, today - 1, start_offset) < now
        /\ now < SunsetAdj(sky, today + 1, start_offset)

\* C22: with a location, strictly ordered adjusted anchors and now strictly
\* between yesterday's and tomorrow's adjusted sunset, now equal to an
\* anchor included, one of the three rules matches: the call does not reach
\* the fallback.
C22_FallbackUnreachable ==
    (HasRelativeBound /\ HasLatLng(CurrentConfig)
        /\ OrderedAnchorsAround(solar, now_utc, StartOffset, EndOffset)) =>
        host # "panicked"

-----------------------------------------------------------------------------
(* The daily occurrences of a window with two absolute bounds *)

\* the occurrence of the window that starts on UTC day k
OccurrenceStart(k) == k * SecondsPerDay + UtcSecondsOfDay(start_recording, tz_offset)

OccurrenceEnd(k) ==
    OccurrenceStart(k)
        + ((TimeOfDay(stop_recording) - TimeOfDay(start_recording)) % SecondsPerDay)

\* C23: two absolute bounds, every UTC offset and every now, now equal to a
\* stop instant included: the window returned is the earliest daily
\* occurrence whose end is >= now; no occurrence that starts earlier has its
\* end at or after now.
C23_EarliestOccurrence ==
    (window # None /\ TimeOfDay(start_recording) # TimeOfDay(stop_recording)) =>
        /\ \E k \in SolarDays :
               Unwrap(window) = [start |-> OccurrenceStart(k), end |-> OccurrenceEnd(k)]
        /\ Unwrap(window).end >= now_utc
        /\ \A k \in SolarDays :
               OccurrenceStart(k) < Unwrap(window).start => OccurrenceEnd(k) < now_utc

-----------------------------------------------------------------------------
(* One absolute and one relative bound *)

Mixed == IsRelative(start_recording) # IsRelative(stop_recording)

\* C24: in a mixed configuration the relative bound of the returned window
\* is exactly the candidate of the three rules, never moved by a day: a
\* relative start is a sunset plus the start offset, a relative stop a
\* sunrise plus the stop offset.
C24_RelativeBoundUntouched ==
    (Mixed /\ window # None) =>
        LET c == Step4Candidate(solar, now_utc, StartOffset, EndOffset)
            today == now_utc \div SecondsPerDay
        IN  /\ c # None
            /\ IsRelative(start_recording) =>
                   /\ Unwrap(window).start = Unwrap(c).start
                   /\ \E d \in (today - 1)..(today + 1) :
                          Unwrap(window).start
                              = Unwrap(solar[d]).sunset
                                    + Unwrap(start_recording.relative_time_seconds)
            /\ IsRelative(stop_recording) =>
                   /\ Unwrap(window).end = Unwrap(c).end
                   /\ \E d \in today..(today + 2) :
                          /\ solar[d] # None
                          /\ Unwrap(window).end
                                 = Unwrap(solar[d]).sunrise
                                       + Unwrap(stop_recording.relative_time_seconds)

\* start "-1h" with an absolute stop: the start is one hour before the
\* sunset of the day before while the stop has been moved to the next day
C24_Witness ==
    /\ start_recording = from_time_abs_or_rel_str(Str_m1h)
    /\ stop_recording = from_time_abs_or_rel_str(Str_950)
    /\ tz_offset = 0
    /\ solar = EquinoxSky
    /\ now_utc = 12 * 3600
    /\ window = Some([start |-> (18 * 3600 - SecondsPerDay) - 3600,
                      end |-> SecondsPerDay + 9 * 3600 + 50 * 60])

-----------------------------------------------------------------------------
(* Offsets that do not fit 32 bits *)

\* the string has no minus sign
Unsigned(str) == \A i \in 1..Len(str) : str[i] # "-"

\* C25: for every string of the allowed alphabet, magnitudes and sums beyond
\* 32 bits included, the parser returns a time spec or a parse error: it
\* does not panic on overflow, and it returns no wrapped offset (a negative
\* offset from a string without a minus sign is a wrapped one).
C25_ParsingTotal ==
    /\ pc # "panic"
    /\ (pc = "done" /\ Unsigned(s)
            /\ Unwrap(result).relative_time_seconds # None) =>
           Unwrap(Unwrap(result).relative_time_seconds) >= 0

-----------------------------------------------------------------------------
(* Successive polls of two absolute bounds *)

\* C26: two absolute bounds start # stop: from one poll to the next the
\* returned window stays the same while now is before its end, its start and
\* end never move backwards, and it changes only once now has reached its
\* end.
C26_PollStability ==
    [][(window # None /\ window' # None
            /\ TimeOfDay(start_recording) # TimeOfDay(stop_recording)) =>
           /\ now_utc' < Unwrap(window).end => window' = window
           /\ Unwrap(window').start >= Unwrap(window).start
           /\ Unwrap(window').end >= Unwrap(window).end
           /\ window' # window => now_utc' >= Unwrap(window).end]_vars

\* the window of 09:10-17:30 has moved on to the next day
C26_Witness ==
    /\ start_recording = Bound_0910
    /\ stop_recording = Bound_1730
    /\ tz_offset = 0
    /\ now_utc > 17 * 3600 + 30 * 60
    /\ now_utc < SecondsPerDay
    /\ window = Some([start |-> SecondsPerDay + 9 * 3600 + 10 * 60,
                      end |-> SecondsPerDay + 17 * 3600 + 30 * 60])

-----------------------------------------------------------------------------
(* The same local instant under another UTC offset *)

\* C27: two absolute bounds: for a fixed config and a fixed local instant the
\* is-active answer and the distances start - now and end - now are the same
\* under every UTC offset o, now being the local instant minus o; whether the
\* stop instant counts as inside does not depend on the offset.
C27_OffsetInvariance ==
    (window # None /\ active # None) =>
        \A o \in TzOffsets :
            LET cfg == Config(start_recording, stop_recording, o, location, solar)
                now == (now_utc + tz_offset) - o
                w == next_recording_window(cfg, now)
                a == time_is_in_recording_window(constant_recorder, cfg, now)
            IN  /\ ~w.panic /\ ~a.panic
                /\ Some(a.inside) = active
                /\ w.start - now = Unwrap(window).start - now_utc
                /\ w.end - now = Unwrap(window).end - now_utc

-----------------------------------------------------------------------------
(* timestamp_to_u64: the [location] timestamp of the config *)

\* toml Offset::Z and Offset::Custom { minutes }
OffsetZ == [custom |-> FALSE, minutes |-> 0]
OffsetCustom(m) == [custom |-> TRUE, minutes |-> m]

\* a toml Datetime with all three parts present
Datetime(date, time, offset) == [date |-> date, time |-> time, offset |-> offset]

\* FixedOffset::east_opt(secs) and west_opt(secs): the offset as local time
\* minus UTC in seconds, None unless -86400 < secs < 86400
east_opt(secs) ==
    IF (0 - SecondsPerDay) < secs /\ secs < SecondsPerDay THEN Some(secs) ELSE None

west_opt(secs) ==
    IF (0 - SecondsPerDay) < secs /\ secs < SecondsPerDay THEN Some(0 - secs) ELSE None

\* NaiveDate::from_ymd_opt for a date of January 1970, as days since the epoch
from_ymd_opt(date) == date.day - 1

\* NaiveTime::from_hms_nano_opt, as seconds of the day
from_hms_nano_opt(time) == (time.hour * 3600) + (time.minute * 60) + time.second

\* timestamp_to_u64: the Option<u64> inside Ok.  The u64 is
\* seconds * 1000000 + subsec_micros; NaiveDateTime + FixedOffset adds the
\* offset's local-minus-UTC seconds.
timestamp_to_u64(dt) ==
    LET offset_minutes == IF dt.offset.custom THEN dt.offset.minutes ELSE 0
        fixed_offset == IF offset_minutes < 0
                        THEN east_opt(offset_minutes * 60)
                        ELSE west_opt(offset_minutes * 60)
    IN  IF fixed_offset # None
        THEN LET naive_utc == ((from_ymd_opt(dt.date) * SecondsPerDay)
                                  + from_hms_nano_opt(dt.time))
                                  + Unwrap(fixed_offset)
             IN  Some([seconds |-> naive_utc, subsec_micros |-> 0])
        ELSE None

\* the timestamps a config may carry
TimestampDates == {[year |-> 1970, month |-> 1, day |-> d] : d \in {2, 3}}

TimestampTimes ==
    {[hour |-> h, minute |-> m, second |-> 0] : h \in {0, 8, 13, 23}, m \in {0, 24}}

TimestampOffsets ==
    {OffsetZ} \cup {OffsetCustom(m) : m \in {0 - 720, 0 - 300, 0 - 60, 0, 60, 345, 780, 840}}

\* serde deserialises the timestamp field of [location]
DeserializeTimestamp ==
    /\ date_time # None
    /\ timestamp = None
    /\ timestamp' = Some(timestamp_to_u64(Unwrap(date_time)))
    /\ UNCHANGED date_time
    /\ UNCHANGED parser_vars
    /\ UNCHANGED window_vars

InitTimestamp ==
    /\ ParserIdle
    /\ ResolverIdle
    /\ date_time \in {Some(Datetime(d, t, o)) :
                          d \in TimestampDates, t \in TimestampTimes, o \in TimestampOffsets}
    /\ timestamp = None

NextTimestamp == DeserializeTimestamp

SpecTimestamp == InitTimestamp /\ [][NextTimestamp]_vars

\* the local date and time of a Datetime as seconds since the epoch, were it
\* UTC
LocalSeconds(dt) ==
    ((dt.date.day - 1) * SecondsPerDay) + (dt.time.hour * 3600)
        + (dt.time.minute * 60) + dt.time.second

\* C28: for a datetime with local time t and UTC offset of o minutes the
\* stored value is the UTC instant t - o, for negative offsets as for zero
\* and positive ones (08:00-05:00 is 13:00 UTC; 08:24+13:00 is 19:24 UTC of
\* the day before).
C28_TimestampIsUtc ==
    timestamp # None =>
        LET dt == Unwrap(date_time)
        IN  /\ Unwrap(timestamp) # None
            /\ Unwrap(Unwrap(timestamp)).seconds
                   = LocalSeconds(dt) - (dt.offset.minutes * 60)
            /\ Unwrap(Unwrap(timestamp)).subsec_micros = 0

=============================================================================
